---- MODULE Spec2Model ----
(***************************************************************************)
(* A model of the simple-chat server: the SQLite Store (database.py), the  *)
(* registry of reachable clients (utils.py), the two text protocols driven *)
(* by the selector loop (server.py, custom_protocol.py, json_protocol.py)  *)
(* and the gRPC service (grpc_server_protocol.py).                         *)
(*                                                                         *)
(* One thread ("loop") runs the selector loop and executes the text        *)
(* handlers; the gRPC thread pool is modelled by the threads RpcThreads.   *)
(* A handler is cut into steps at its accesses to shared state: every      *)
(* database call and every lock region is one step, so that the steps of   *)
(* different threads interleave as the code's can.                         *)
(***************************************************************************)
EXTENDS Integers, Sequences, FiniteSets, TLC

\* ------------------------------------------------------------------ bounds
\* Requests the clients issue in one run (frames, RPC calls, stream opens).
MaxReq == 3
\* Messages the Store accepts in one run.
MaxMsgs == 2
\* Rows of the messages table a conversation summary is computed over.
MaxRows == 3
\* Turns of UpdateStream's drain loop that find the queue empty, counted per
\* wait (the loop itself has no limit).
MaxSpin == 2

\* ------------------------------------------------------- input universes
Users == {"alice", "bob"}
Passwords == {"pw", "bad"}
Texts == {"hi"}
Conns == {"c1", "c2"}
RpcThreads == {"r1", "r2"}
LoopThread == "loop"
Threads == RpcThreads \cup {LoopThread}
MsgIds == 1..MaxMsgs

\* ------------------------------------------------------------ error codes
SUCCESS == 0
USER_TAKEN == 1
USER_DNE == 2
WRONG_PASS == 3
DB_ERROR == 4
UNSUPPORTED_VERSION == 5
UNKNOWN_COMMAND == 6
ID_DNE == 7
USER_LOGGED_ON == 8
\* Page codes carried by USERS.
REG_PG == 10
LGN_PG == 11

\* The sink utils.get_passive_client returns for an RPC client: no server
\* code ever calls add_passive_client, so the lookup yields None.
NoSock == "None"
\* data.username of a connection nobody logged in on (None).
NoUser == ""
NoConn == "-"

VARIABLES
  accounts,        \* accounts table: username -> [password_hash, deactivated]
  messages,        \* messages table: set of rows
  seq,             \* sqlite_sequence of messages (AUTOINCREMENT)
  active_clients,  \* utils.active_clients: username -> socket (or None)
  rpc_send_queue,  \* utils.rpc_send_queue: username -> list of updates
  conns,           \* per text connection: state, data.username, data.outb, bytes on the socket
  thr,             \* per thread: the request it serves, its position and locals
  last,            \* the request completed last: its thread, locals and response
  nreq,            \* requests issued so far
  hist             \* history: ids store_message returned, ids whose deletion
                   \* succeeded, users whose update stream ended and was cleaned up

vars == <<accounts, messages, seq, active_clients, rpc_send_queue, conns, thr, last, nreq, hist>>

\* ------------------------------------------------------------------ Store

\* SELECT ... FROM accounts WHERE username = ? finds a row.
HasAccount(u) == u \in DOMAIN accounts

\* A verify_login that does not look at the deactivated column.
verify_login_ignoring_deactivated(u, p) ==
  IF ~HasAccount(u) THEN <<FALSE, USER_DNE>>
  ELSE IF p = accounts[u].password_hash THEN <<TRUE, SUCCESS>>
  ELSE <<FALSE, WRONG_PASS>>

\* A verify_login that reports a wrong password as an unknown user.
verify_login_one_errno(u, p) ==
  IF ~HasAccount(u) \/ accounts[u].deactivated = 1 THEN <<FALSE, USER_DNE>>
  ELSE IF p = accounts[u].password_hash THEN <<TRUE, SUCCESS>>
  ELSE <<FALSE, USER_DNE>>

\* database.verify_login: <<success, errno>>.
verify_login(u, p) ==
  IF ~HasAccount(u) \/ accounts[u].deactivated = 1 THEN <<FALSE, USER_DNE>>
  ELSE IF p = accounts[u].password_hash THEN <<TRUE, SUCCESS>>
  ELSE <<FALSE, WRONG_PASS>>

\* database.verify_valid_recipient: 1 if the account is not deactivated, 0 if
\* it is; subscripting the missing row of an unknown recipient raises.
RecipientRowMissing(r) == ~HasAccount(r)
verify_valid_recipient(r) == 1 - accounts[r].deactivated

\* database.deactivate_account, the accounts table afterwards.
deactivate_account(u) ==
  IF HasAccount(u) THEN [accounts EXCEPT ![u].deactivated = 1] ELSE accounts

\* The row with the given id, as a set (empty: no such row).
RowsWithId(id) == {m \in messages : m.id = id}

\* SUM(unread) over a set of rows.
RECURSIVE SumUnread(_)
SumUnread(S) ==
  IF S = {} THEN 0
  ELSE LET x == CHOOSE y \in S : TRUE IN x.unread + SumUnread(S \ {x})

\* database.get_num_unread: SELECT SUM(unread) FROM messages WHERE recipient = ?
get_num_unread(user) == SumUnread({m \in messages : m.recipient = user})

\* A variant of the UPDATE that counts the flag down (SET unread = unread - 1)
\* instead of clearing it.
mark_message_as_read_decrement(id) ==
  {IF m.id = id THEN [m EXCEPT !.unread = @ - 1] ELSE m : m \in messages}

\* A variant of the UPDATE that selects by the recipient found for the id
\* (WHERE recipient = ?) instead of by the id.
mark_message_as_read_whole_inbox(id) ==
  {IF \E x \in messages : x.id = id /\ x.recipient = m.recipient
   THEN [m EXCEPT !.unread = 0] ELSE m : m \in messages}

\* database.mark_message_as_read, the messages table afterwards.
mark_message_as_read(id) ==
  {IF m.id = id THEN [m EXCEPT !.unread = 0] ELSE m : m \in messages}

\* The id SQLite assigns without AUTOINCREMENT: one more than the largest
\* rowid currently in the table.
NextMsgId_max_rowid ==
  IF messages = {} THEN 1
  ELSE (CHOOSE i \in {m.id : m \in messages} : \A m \in messages : m.id <= i) + 1

\* The id SQLite assigns to a new row of an AUTOINCREMENT table: one more than
\* the largest rowid the table has ever held.
NextMsgId == seq + 1

\* The DEFAULT CURRENT_TIMESTAMP of a new row, on a clock that has advanced
\* since the row before it was inserted.
CURRENT_TIMESTAMP == seq + 1

\* database.store_message, the messages table afterwards (unread DEFAULT 1).
store_message(sender, recipient, text) ==
  messages \cup {[id |-> NextMsgId, sender |-> sender, recipient |-> recipient,
                  message |-> text, timestamp |-> CURRENT_TIMESTAMP, unread |-> 1]}

\* A DELETE that is never committed: the table keeps the row.
delete_row_uncommitted(id) == messages

\* database.delete_message's DELETE FROM messages WHERE id = ?
delete_row(id) == {m \in messages : m.id # id}

\* The WHERE clause of get_recent_messages.
InConversation(m, user1, user2, oldest) ==
  /\ \/ (m.sender = user1 /\ m.recipient = user2)
     \/ (m.sender = user2 /\ m.recipient = user1)
  /\ (oldest = -1 \/ m.id < oldest)

\* ORDER BY id DESC LIMIT ?: the rows with the limit largest ids.
PageRows(user1, user2, oldest, limit) ==
  LET conv == {m \in messages : InConversation(m, user1, user2, oldest)}
  IN {m \in conv : Cardinality({n \in conv : n.id > m.id}) < limit}

\* The rows of S as a list in descending order of id.
RECURSIVE DescById(_)
DescById(S) ==
  IF S = {} THEN <<>>
  ELSE LET top == CHOOSE m \in S : \A n \in S : n.id <= m.id
       IN <<top>> \o DescById(S \ {top})

\* reversed(list).
Reversed(q) == [i \in 1..Len(q) |-> q[Len(q) + 1 - i]]

\* The dictionary get_recent_messages builds of a fetched row.
MessageDict(m) ==
  [id |-> m.id, sender |-> m.sender, recipient |-> m.recipient,
   message |-> m.message, timestamp |-> m.timestamp]

\* database.get_recent_messages, the value it returns: the list of the
\* fetched rows' dictionaries, oldest first.
get_recent_messages(user1, user2, oldest, limit) ==
  LET fetched == DescById(PageRows(user1, user2, oldest, limit))
  IN Reversed([i \in 1..Len(fetched) |-> MessageDict(fetched[i])])

\* An UPDATE that sets every fetched row to read, whoever received it.
get_recent_messages_update_any_recipient(user1, user2, oldest, limit) ==
  LET ids == {m.id : m \in PageRows(user1, user2, oldest, limit)}
  IN {IF m.id \in ids THEN [m EXCEPT !.unread = 0] ELSE m : m \in messages}

\* database.get_recent_messages' UPDATE: the fetched rows received by user1
\* are set to read.
get_recent_messages_update(user1, user2, oldest, limit) ==
  LET ids == {m.id : m \in {x \in PageRows(user1, user2, oldest, limit) : x.recipient = user1}}
  IN {IF m.id \in ids THEN [m EXCEPT !.unread = 0] ELSE m : m \in messages}

\* get_conversations' first query: the messages to the recipient grouped by
\* sender, COUNT(CASE WHEN unread = 1 ...) per group, HAVING unread_count > 0.
SenderGroups(recipient) == {m.sender : m \in {x \in messages : x.recipient = recipient}}
GroupUnreadCount(recipient, sender) ==
  Cardinality({m \in messages : m.recipient = recipient /\ m.sender = sender /\ m.unread = 1})
unread_rows(recipient) ==
  {<<s, GroupUnreadCount(recipient, s)>> :
     s \in {g \in SenderGroups(recipient) : GroupUnreadCount(recipient, g) > 0}}

\* get_conversations' second query: every account except the recipient and
\* the senders of the first query's rows.
other_rows(recipient) ==
  {u \in DOMAIN accounts : u # recipient /\ u \notin {r[1] : r \in unread_rows(recipient)}}

\* The time of the newest unread message of the group.
last_unread_time(recipient, sender) ==
  LET ts == {m.timestamp : m \in {x \in messages : /\ x.recipient = recipient
                                                  /\ x.sender = sender
                                                  /\ x.unread = 1}}
  IN CHOOSE t \in ts : \A o \in ts : o <= t

\* The first query's MAX(timestamp) AS last_msg_time: the time of the newest
\* message of the group, read or unread.
last_msg_time(recipient, sender) ==
  LET ts == {m.timestamp : m \in {x \in messages : /\ x.recipient = recipient
                                                  /\ x.sender = sender}}
  IN CHOOSE t \in ts : \A o \in ts : o <= t

\* The first query's ORDER BY last_msg_time DESC: the orders in which its
\* rows can come; rows with equal times come in any order.
unread_rows_ordered(recipient) ==
  LET rows == unread_rows(recipient)
      n == Cardinality(rows)
  IN {q \in [1..n -> rows] :
        \A i, j \in 1..n :
          i < j => /\ q[i] # q[j]
                   /\ last_msg_time(recipient, q[i][1]) >= last_msg_time(recipient, q[j][1])}

\* The usernames of the model in the order of SQLite's BINARY collation.
Alphabetical == <<"ERROR", "alice", "bob", "carol">>
UsernameRank(u) == CHOOSE i \in 1..Len(Alphabetical) : Alphabetical[i] = u

\* ORDER BY username ASC.
RECURSIVE AscByUsername(_)
AscByUsername(S) ==
  IF S = {} THEN <<>>
  ELSE LET first == CHOOSE u \in S : \A v \in S : UsernameRank(u) <= UsernameRank(v)
       IN <<first>> \o AscByUsername(S \ {first})

\* database.get_conversations: the lists of (peer, unread_count) it can
\* return, the first query's rows followed by the second's with count 0.
get_conversations(recipient) ==
  LET others == AscByUsername(other_rows(recipient))
  IN {q \o [i \in 1..Len(others) |-> <<others[i], 0>>] : q \in unread_rows_ordered(recipient)}

\* ----------------------------------------------------------------- frames
\* A response or push, in the wire family that encoded it.  The record is the
\* decoded content; opcode NONE stands for "no response".  part tells which
\* bytes of the encoded frame an element of a byte stream stands for: the
\* whole frame, or the head or the tail a partial write cut it into.
Frame(fam, opcode, errno, page, user, id, text, flag, list) ==
  [fam |-> fam, opcode |-> opcode, errno |-> errno, page |-> page, user |-> user,
   id |-> id, text |-> text, flag |-> flag, list |-> list, part |-> "whole"]
NoResp == Frame("-", "NONE", 0, 0, "", 0, "", 0, <<>>)
ErrorFrame(fam, errno) == Frame(fam, "ERROR", errno, 0, "", 0, "", 0, <<>>)
UsersFrame(fam, page, user, list) == Frame(fam, "USERS", 0, page, user, 0, "", 0, list)
AckFrame(fam, id) == Frame(fam, "ACK", 0, 0, "", id, "", 0, <<>>)
DelMsgFrame(fam, id, sender, unread) == Frame(fam, "DEL_MSG", 0, 0, sender, id, "", unread, <<>>)
DelAccFrame(fam) == Frame(fam, "DEL_ACC", 0, 0, "", 0, "", 0, <<>>)
\* The chat-history response: the unread count and the page.
MsgsFrame(fam, unreads, history) == Frame(fam, "MSGS", 0, 0, "", 0, "", unreads, history)
OkFrame(fam) == Frame(fam, "OK", 0, 0, "", 0, "", 0, <<>>)
ExceptionFrame(fam) == Frame(fam, "EXCEPTION", 0, 0, "", 0, "", 0, <<>>)
PushUserFrame(fam, user) == Frame(fam, "PUSH_USER", 0, 0, user, 0, "", 0, <<>>)
PushMsgFrame(fam, sender, id, text) == Frame(fam, "PUSH_MSG", 0, 0, sender, id, text, 0, <<>>)
\* The RPC surface's PushDeleteMsg; the text handlers push the DEL_MSG response itself.
PushDelFrame(fam, id, sender, unread) == Frame(fam, "PUSH_DEL", 0, 0, sender, id, "", unread, <<>>)

\* -------------------------------------------------------- threads, requests
TextFams == {"custom", "json"}
Limits == {1, 2}
NoReq == [op |-> "NONE", fam |-> "-", conn |-> NoConn, u |-> "", v |-> "",
          id |-> 0, lim |-> 0, text |-> ""]
Req(op, fam, c, u, v, id, lim, text) ==
  [op |-> op, fam |-> fam, conn |-> c, u |-> u, v |-> v, id |-> id, lim |-> lim, text |-> text]
NoLoc == [ok |-> FALSE, errno |-> 0, mid |-> -1, text |-> "", row |-> {}, list |-> <<>>,
          pushed |-> {}, had |-> FALSE, absent0 |-> FALSE, gone0 |-> FALSE,
          acct0 |-> "none", cleared |-> 0, spins |-> 0, failed |-> {}]
IdleThread == [pc |-> "idle", req |-> NoReq, loc |-> NoLoc, out |-> <<>>,
               held |-> {}, lk |-> 0]
NoLast == [t |-> "-", req |-> NoReq, loc |-> NoLoc, resp |-> NoResp]
NewConn == [state |-> "new", username |-> NoUser, outb |-> <<>>, wire |-> <<>>]

IsText(t) == t = LoopThread
\* The main thread died of an exception no handler catches; the process ends.
Alive == thr[LoopThread].pc # "crashed"
Free(t) == thr[t].pc = "idle"

\* Usernames that contain the text ERROR.
NamesWithERROR == {"ERROR"}

\* The requests a client can issue on a surface.
RequestsOn(fam, c) ==
  {Req("CREATE", fam, c, u, p, 0, 0, "") : u \in Users \cup NamesWithERROR, p \in Passwords}
  \cup {Req("LOGIN", fam, c, u, p, 0, 0, "") : u \in Users \cup NamesWithERROR, p \in Passwords}
  \cup {Req("SEND", fam, c, u, v, 0, 0, x) : u \in Users, v \in Users, x \in Texts}
  \cup {Req("READ", fam, c, q[1], q[2], q[3], q[4], "") :
          q \in Users \X Users \X ({-1} \cup MsgIds) \X Limits}
  \cup {Req("DEL_MSG", fam, c, "", "", i, 0, "") : i \in MsgIds}
  \cup {Req("DEL_ACC", fam, c, u, "", 0, 0, "") : u \in Users}
  \cup {Req("REC_MSG", fam, c, "", "", i, 0, "") : i \in MsgIds}
  \cup (IF fam = "rpc" THEN {Req("STREAM", fam, c, u, "", 0, 0, "") : u \in Users} ELSE {})

\* Frames no handler is dispatched for.  BADVER: the leading token is not a
\* supported version; fam tells how the frame starts ("custom": with 1.0,
\* as in 1.0.1; "json": with 2.0; "other": with neither).  UNKNOWN: a
\* supported version with a command or opcode no handler exists for.
RejectedOn(c) ==
  {Req("BADVER", f, c, "", "", 0, 0, "") : f \in TextFams \cup {"other"}}
  \cup {Req("UNKNOWN", f, c, "", "", 0, 0, "") : f \in TextFams}

Requests(t) ==
  IF IsText(t)
  THEN UNION {RequestsOn(f, c) : f \in TextFams, c \in {x \in Conns : conns[x].state = "open"}}
       \cup UNION {RejectedOn(c) : c \in {x \in Conns : conns[x].state = "open"}}
  ELSE RequestsOn("rpc", NoConn)

\* First step of each operation's handler.
FirstPc(op) ==
  CASE op = "CREATE" -> "c_sel"
    [] op = "LOGIN" -> "l_ver"
    [] op = "SEND" -> "s_ver"
    [] op = "READ" -> "read"
    [] op = "DEL_MSG" -> "d_sel"
    [] op = "DEL_ACC" -> "a_deact"
    [] op = "REC_MSG" -> "ack"
    [] op = "STREAM" -> "st_poll"
    [] op \in {"BADVER", "UNKNOWN"} -> "reject"

\* --------------------------------------------------------------- registry
\* The username has an ActiveClientEntry: a socket in active_clients or a
\* push queue in rpc_send_queue.
Registered(u) == u \in DOMAIN active_clients \/ u \in DOMAIN rpc_send_queue

\* The map if remove_active_client left the entry in place.
remove_active_client_keeping(u) == active_clients

\* utils.add_active_client / remove_active_client, the map afterwards.
add_active_client(u, sock) == (u :> sock) @@ active_clients
remove_active_client(u) == [x \in DOMAIN active_clients \ {u} |-> active_clients[x]]
\* The queue map if remove_rpc_send_queue_user left the entry in place.
remove_rpc_send_queue_user_keeping(u) == rpc_send_queue

\* utils.add_rpc_send_queue_user / remove_rpc_send_queue_user.
add_rpc_send_queue_user(u) == (u :> <<>>) @@ rpc_send_queue
remove_rpc_send_queue_user(u) == [x \in DOMAIN rpc_send_queue \ {u} |-> rpc_send_queue[x]]

\* sock.sendall(frame) returns normally: the sink is a socket object that is
\* still open.  On None (an RPC client's entry) or a closed socket it raises,
\* and the handlers catch and print.
Deliverable(sock) == sock \in Conns /\ conns[sock].state = "open"

\* The users of `targets` whose sink takes a push through active_clients.
TextDelivered(targets) ==
  {x \in targets : x \in DOMAIN active_clients /\ Deliverable(active_clients[x])}

\* The users of `targets` on whose sink sendall raises: the handlers' except
\* branch prints the failure and goes on.
TextFailed(targets) == (targets \cap DOMAIN active_clients) \ TextDelivered(targets)

\* conns after the text handlers' sendall of `frame` to each user of `targets`.
SendAllTo(targets, frame) ==
  [c \in Conns |->
     LET n == Cardinality({x \in TextDelivered(targets) : active_clients[x] = c})
     IN [conns[c] EXCEPT !.wire = @ \o [i \in 1..n |-> frame]]]

\* rpc_send_queue after appending `frame` to the queue of each user of `targets`.
EnqueueTo(targets, frame) ==
  [x \in DOMAIN rpc_send_queue |->
     IF x \in targets THEN Append(rpc_send_queue[x], frame) ELSE rpc_send_queue[x]]

\* data.outb += response (nothing for a handler that returns None).
QueueOut(cs, c, frame) ==
  IF frame.opcode = "NONE" THEN cs ELSE [cs EXCEPT ![c].outb = Append(@, frame)]

\* The handler returns `resp`: the text loop queues it on the connection, the
\* RPC thread hands it to gRPC.  `cs` is conns after the handler's pushes.
\* Leaving a `with` block, by return or by exception, releases its lock.
Finish(t, loc, resp, cs) ==
  /\ thr' = [thr EXCEPT ![t] = IdleThread]
  /\ last' = [t |-> t, req |-> thr[t].req, loc |-> loc, resp |-> resp]
  /\ conns' = IF IsText(t) THEN QueueOut(cs, thr[t].req.conn, resp) ELSE cs

Goto(t, pc, loc) ==
  /\ thr' = [thr EXCEPT ![t].pc = pc, ![t].loc = loc, ![t].held = {}, ![t].lk = 0]
  /\ UNCHANGED last

\* An exception leaves the handler: the selector loop has no handler for it,
\* gRPC turns it into a failed call.
Raise(t) ==
  IF IsText(t)
  THEN thr' = [thr EXCEPT ![t].pc = "crashed", ![t].held = {}, ![t].lk = 0] /\ UNCHANGED last
  ELSE /\ thr' = [thr EXCEPT ![t] = IdleThread]
       /\ last' = [t |-> t, req |-> thr[t].req, loc |-> thr[t].loc, resp |-> ExceptionFrame("rpc")]

\* The accounts row of a username as a request finds it on arrival: none,
\* live, or dead (deactivated).
AccountState(u) ==
  IF ~HasAccount(u) THEN "none"
  ELSE IF accounts[u].deactivated = 1 THEN "dead" ELSE "live"

\* ------------------------------------------------------------------- Init
Init ==
  /\ accounts = <<>>
  /\ messages = {}
  /\ seq = 0
  /\ active_clients = <<>>
  /\ rpc_send_queue = <<>>
  /\ conns = [c \in Conns |-> NewConn]
  /\ thr = [t \in Threads |-> IdleThread]
  /\ last = NoLast
  /\ nreq = 0
  /\ hist = [issued |-> <<>>, deleted |-> {}, ended |-> {}]

\* Sends that have not reached store_message yet.
PendingSends == Cardinality({x \in Threads : thr[x].pc \in {"s_ver", "s_store"}})

\* A client issues request r on thread t's surface: a frame the selector loop
\* takes from a connection's buffer, or an RPC a pool thread picks up.
Begin(t, r) ==
  /\ Alive /\ Free(t) /\ nreq < MaxReq
  /\ r \in Requests(t)
  /\ r.op = "SEND" => seq + PendingSends < MaxMsgs
  /\ thr' = [thr EXCEPT ![t] =
       [pc |-> FirstPc(r.op), req |-> r, out |-> <<>>, held |-> {}, lk |-> 0,
        loc |-> [NoLoc EXCEPT !.absent0 = (r.op = "LOGIN" /\ ~Registered(r.u)),
                              !.gone0 = (r.op = "DEL_MSG" /\ r.id \in hist.deleted),
                              !.acct0 = IF r.op = "LOGIN" THEN AccountState(r.u) ELSE "none"]]]
  /\ nreq' = nreq + 1
  /\ UNCHANGED <<accounts, messages, seq, active_clients, rpc_send_queue, conns, last, hist>>

\* server.accept_wrapper.
Accept(c) ==
  /\ Alive /\ Free(LoopThread)
  /\ conns[c].state = "new"
  /\ conns' = [conns EXCEPT ![c].state = "open"]
  /\ UNCHANGED <<accounts, messages, seq, active_clients, rpc_send_queue, thr, last, nreq, hist>>

\* server.service_connection, recv returned nothing: the bound username is
\* removed from active_clients, the socket is unregistered and closed.
Close(c) ==
  /\ Alive /\ Free(LoopThread)
  /\ conns[c].state = "open"
  /\ active_clients' = IF conns[c].username # NoUser
                       THEN remove_active_client(conns[c].username)
                       ELSE active_clients
  /\ conns' = [conns EXCEPT ![c].state = "closed"]
  /\ UNCHANGED <<accounts, messages, seq, rpc_send_queue, thr, last, nreq, hist>>

\* server.service_connection, EVENT_WRITE: data.outb goes to the socket.
Flush(c) ==
  /\ Alive /\ Free(LoopThread)
  /\ conns[c].state = "open"
  /\ conns[c].outb # <<>>
  /\ conns' = [conns EXCEPT ![c].wire = @ \o conns[c].outb, ![c].outb = <<>>]
  /\ UNCHANGED <<accounts, messages, seq, active_clients, rpc_send_queue, thr, last, nreq, hist>>

\* The same branch when sock.send takes only the first bytes of data.outb:
\* `data.outb = data.outb[sent:]` keeps the rest, which starts with the tail
\* of the frame the write stopped in.
PartialFlush(c) ==
  /\ Alive /\ Free(LoopThread)
  /\ conns[c].state = "open"
  /\ conns[c].outb # <<>>
  /\ Head(conns[c].outb).part = "whole"
  /\ conns' = [conns EXCEPT
        ![c].wire = Append(@, [Head(conns[c].outb) EXCEPT !.part = "head"]),
        ![c].outb = <<[Head(conns[c].outb) EXCEPT !.part = "tail"]>> \o Tail(conns[c].outb)]
  /\ UNCHANGED <<accounts, messages, seq, active_clients, rpc_send_queue, thr, last, nreq, hist>>

\* ---------------------------------------------------------------- rejects
\* The answer to a frame whose version is not supported: process_message of
\* the family the frame starts like, and service_connection's own JSON error
\* for a frame that starts like neither.
version_error_as_unknown_command(fam) ==
  ErrorFrame(IF fam = "custom" THEN "custom" ELSE "json", UNKNOWN_COMMAND)
version_error(fam) ==
  ErrorFrame(IF fam = "custom" THEN "custom" ELSE "json", UNSUPPORTED_VERSION)

\* process_message's two refusals; the response is queued like any other
\* and the loop goes on with the next frame.
Reject(t) ==
  LET r == thr[t].req
      resp == IF r.op = "BADVER" THEN version_error(r.fam)
              ELSE ErrorFrame(r.fam, UNKNOWN_COMMAND)
  IN
  /\ Alive /\ thr[t].pc = "reject"
  /\ Finish(t, [thr[t].loc EXCEPT !.errno = resp.errno], resp, conns)
  /\ UNCHANGED <<accounts, messages, seq, active_clients, rpc_send_queue, nreq, hist>>

\* ----------------------------------------------------------------- CREATE
\* register_account's SELECT: the username is taken.
CreateSelect(t) ==
  LET r == thr[t].req  l == thr[t].loc IN
  /\ Alive /\ thr[t].pc = "c_sel"
  /\ IF HasAccount(r.u)
     THEN Finish(t, [l EXCEPT !.errno = USER_TAKEN], ErrorFrame(r.fam, USER_TAKEN), conns)
     ELSE Goto(t, "c_ins", l) /\ UNCHANGED conns
  /\ UNCHANGED <<accounts, messages, seq, active_clients, rpc_send_queue, nreq, hist>>

\* register_account's INSERT: the primary key rejects a username that another
\* request inserted since the SELECT, and the except branch returns DB_ERROR.
CreateInsert(t) ==
  LET r == thr[t].req  l == thr[t].loc IN
  /\ Alive /\ thr[t].pc = "c_ins"
  /\ IF HasAccount(r.u)
     THEN /\ Finish(t, [l EXCEPT !.errno = DB_ERROR], ErrorFrame(r.fam, DB_ERROR), conns)
          /\ UNCHANGED accounts
     ELSE /\ accounts' = (r.u :> [password_hash |-> r.v, deactivated |-> 0]) @@ accounts
          /\ Goto(t, "c_push", [l EXCEPT !.ok = TRUE])
          /\ UNCHANGED conns
  /\ UNCHANGED <<messages, seq, active_clients, rpc_send_queue, nreq, hist>>

\* The broadcast of the new user: the text handlers send PUSH_USER on every
\* socket of active_clients but the new user's, Register appends PushUser to
\* every queue of rpc_send_queue.
CreatePush(t) ==
  LET r == thr[t].req  l == thr[t].loc
      targets == DOMAIN active_clients \ {r.u}
  IN
  /\ Alive /\ thr[t].pc = "c_push"
  /\ IF IsText(t)
     THEN /\ conns' = SendAllTo(targets, PushUserFrame(r.fam, r.u))
          /\ Goto(t, "conv", [l EXCEPT !.pushed = {<<x, active_clients[x]>> : x \in TextDelivered(targets)},
                                       !.failed = TextFailed(targets)])
          /\ UNCHANGED rpc_send_queue
     ELSE /\ rpc_send_queue' = EnqueueTo(DOMAIN rpc_send_queue, PushUserFrame("rpc", r.u))
          /\ Goto(t, "conv", [l EXCEPT !.pushed = {<<x, "queue">> : x \in DOMAIN rpc_send_queue}])
          /\ UNCHANGED conns
  /\ UNCHANGED <<accounts, messages, seq, active_clients, nreq, hist>>

\* ------------------------------------------------------------------ LOGIN
\* A Login that enters the username in active_clients before it verifies.
LoginVerify_registering_first(t) ==
  LET r == thr[t].req  l == thr[t].loc  v == verify_login(r.u, r.v) IN
  /\ Alive /\ thr[t].pc = "l_ver"
  /\ Goto(t, "l_chk", [l EXCEPT !.ok = v[1], !.errno = v[2]])
  /\ active_clients' = add_active_client(r.u, NoSock)
  /\ UNCHANGED <<accounts, messages, seq, rpc_send_queue, conns, nreq, hist>>

\* database.verify_login, the handler's first statement.
LoginVerify(t) ==
  LET r == thr[t].req  l == thr[t].loc  v == verify_login(r.u, r.v) IN
  /\ Alive /\ thr[t].pc = "l_ver"
  /\ Goto(t, "l_chk", [l EXCEPT !.ok = v[1], !.errno = v[2]])
  /\ UNCHANGED <<accounts, messages, seq, active_clients, rpc_send_queue, conns, nreq, hist>>

\* The "already logged on" check: the text handlers look the username up in
\* active_clients, Login looks it up in rpc_send_queue.  json_protocol's
\* handle_login formats a failed verification as the custom family's error.
LoginCheck(t) ==
  LET r == thr[t].req
      l == [thr[t].loc EXCEPT !.had = Registered(r.u)]
      online == IF IsText(t) THEN r.u \in DOMAIN active_clients
                ELSE r.u \in DOMAIN rpc_send_queue
  IN
  /\ Alive /\ thr[t].pc = "l_chk"
  /\ IF online
     THEN Finish(t, l, ErrorFrame(r.fam, USER_LOGGED_ON), conns)
     ELSE IF l.ok
     THEN Goto(t, "conv", l) /\ UNCHANGED conns
     ELSE Finish(t, l, ErrorFrame(IF r.fam = "json" THEN "custom" ELSE r.fam, l.errno), conns)
  /\ UNCHANGED <<accounts, messages, seq, active_clients, rpc_send_queue, nreq, hist>>

\* handle_get_conversations / the user_unreads of Register and Login.
Conversations(t) ==
  LET r == thr[t].req  l == thr[t].loc IN
  /\ Alive /\ thr[t].pc = "conv"
  /\ \E list \in get_conversations(r.u) : Goto(t, "reg", [l EXCEPT !.list = list])
  /\ UNCHANGED <<accounts, messages, seq, active_clients, rpc_send_queue, conns, nreq, hist>>

\* service_connection's test of the response before it registers the
\* connection: the custom branch tests response.startswith("1.0 ERROR"), the
\* JSON branch tests "ERROR" in response, which also matches a payload string.
LooksLikeError(fam, resp) ==
  IF fam = "custom" THEN resp.fam = "custom" /\ resp.opcode = "ERROR"
  ELSE \/ resp.opcode = "ERROR"
       \/ resp.user \in NamesWithERROR
       \/ \E i \in DOMAIN resp.list : resp.list[i][1] \in NamesWithERROR

\* The registration after a successful CREATE or LOGIN.  Text: data.username
\* is set and add_active_client binds the socket.  RPC: add_active_client
\* binds what get_passive_client returned.
Register(t) ==
  LET r == thr[t].req  l == thr[t].loc
      resp == UsersFrame(r.fam, IF r.op = "CREATE" THEN REG_PG ELSE LGN_PG, r.u, l.list)
  IN
  /\ Alive /\ thr[t].pc = "reg"
  /\ IF IsText(t)
     THEN IF LooksLikeError(r.fam, resp)
          THEN Finish(t, l, resp, conns) /\ UNCHANGED active_clients
          ELSE /\ active_clients' = add_active_client(r.u, r.conn)
               /\ Finish(t, l, resp, [conns EXCEPT ![r.conn].username = r.u])
     ELSE /\ active_clients' = add_active_client(r.u, NoSock)
          /\ Goto(t, "queue", l)
          /\ UNCHANGED conns
  /\ UNCHANGED <<accounts, messages, seq, rpc_send_queue, nreq, hist>>

\* utils.add_rpc_send_queue_user, then the LoginResponse is returned.
RegisterQueue(t) ==
  LET r == thr[t].req  l == thr[t].loc IN
  /\ Alive /\ thr[t].pc = "queue"
  /\ rpc_send_queue' = add_rpc_send_queue_user(r.u)
  /\ Finish(t, l, UsersFrame(r.fam, IF r.op = "CREATE" THEN REG_PG ELSE LGN_PG, r.u, l.list), conns)
  /\ UNCHANGED <<accounts, messages, seq, active_clients, nreq, hist>>

\* ------------------------------------------------------------------- SEND
\* verify_valid_recipient; a recipient without an account row raises.
SendVerify(t) ==
  LET r == thr[t].req  l == thr[t].loc IN
  /\ Alive /\ thr[t].pc = "s_ver"
  /\ IF RecipientRowMissing(r.v)
     THEN Raise(t)
     ELSE IF verify_valid_recipient(r.v) # 0
     THEN Goto(t, "s_store", [l EXCEPT !.ok = TRUE])
     ELSE Goto(t, "s_push", l)
  /\ UNCHANGED <<accounts, messages, seq, active_clients, rpc_send_queue, conns, nreq, hist>>

\* store_message: the row is inserted and its id returned.
SendStore(t) ==
  LET r == thr[t].req  l == thr[t].loc IN
  /\ Alive /\ thr[t].pc = "s_store"
  /\ messages' = store_message(r.u, r.v, r.text)
  /\ seq' = NextMsgId
  /\ hist' = [hist EXCEPT !.issued = Append(@, NextMsgId)]
  /\ Goto(t, "s_push", [l EXCEPT !.mid = NextMsgId, !.text = r.text,
                                 !.gone0 = (hist.deleted # {})])
  /\ UNCHANGED <<accounts, active_clients, rpc_send_queue, conns, nreq>>

\* A handler that answers with an error when the push could not be sent.
SendPush_reporting_failure(t) ==
  LET r == thr[t].req
      l == [thr[t].loc EXCEPT !.had = Registered(r.v)]
  IN
  /\ Alive /\ thr[t].pc = "s_push"
  /\ IF IsText(t)
     THEN /\ Finish(t, [l EXCEPT !.pushed = {<<x, active_clients[x]>> : x \in TextDelivered({r.v})},
                                 !.failed = TextFailed({r.v})],
                    IF TextFailed({r.v}) = {} THEN AckFrame(r.fam, l.mid)
                    ELSE ErrorFrame(r.fam, DB_ERROR),
                    SendAllTo({r.v}, PushMsgFrame(r.fam, r.u, l.mid, l.text)))
          /\ UNCHANGED rpc_send_queue
     ELSE /\ rpc_send_queue' = EnqueueTo({r.v}, PushMsgFrame("rpc", r.u, l.mid, r.text))
          /\ Finish(t, [l EXCEPT !.pushed = {<<x, "queue">> : x \in {r.v} \cap DOMAIN rpc_send_queue}],
                    AckFrame(r.fam, l.mid), conns)
  /\ UNCHANGED <<accounts, messages, seq, active_clients, nreq, hist>>

\* The push of the message to the recipient's sink, then the ACK.  The text
\* handlers look the recipient up in active_clients, SendMessage in
\* rpc_send_queue.
SendPush(t) ==
  LET r == thr[t].req
      l == [thr[t].loc EXCEPT !.had = Registered(r.v)]
  IN
  /\ Alive /\ thr[t].pc = "s_push"
  /\ IF IsText(t)
     THEN /\ Finish(t, [l EXCEPT !.pushed = {<<x, active_clients[x]>> : x \in TextDelivered({r.v})},
                                 !.failed = TextFailed({r.v})],
                    AckFrame(r.fam, l.mid),
                    SendAllTo({r.v}, PushMsgFrame(r.fam, r.u, l.mid, l.text)))
          /\ UNCHANGED rpc_send_queue
     ELSE /\ rpc_send_queue' = EnqueueTo({r.v}, PushMsgFrame("rpc", r.u, l.mid, r.text))
          /\ Finish(t, [l EXCEPT !.pushed = {<<x, "queue">> : x \in {r.v} \cap DOMAIN rpc_send_queue}],
                    AckFrame(r.fam, l.mid), conns)
  /\ UNCHANGED <<accounts, messages, seq, active_clients, nreq, hist>>

\* ---------------------------------------------------------------- DEL_MSG
\* delete_message's SELECT.
DeleteSelect(t) ==
  LET r == thr[t].req  l == thr[t].loc  rows == RowsWithId(r.id) IN
  /\ Alive /\ thr[t].pc = "d_sel"
  /\ IF rows = {}
     THEN Finish(t, [l EXCEPT !.errno = ID_DNE], ErrorFrame(r.fam, ID_DNE), conns)
     ELSE Goto(t, "d_del", [l EXCEPT !.row = rows]) /\ UNCHANGED conns
  /\ UNCHANGED <<accounts, messages, seq, active_clients, rpc_send_queue, nreq, hist>>

\* delete_message's DELETE and commit.
DeleteRow(t) ==
  LET r == thr[t].req  l == thr[t].loc IN
  /\ Alive /\ thr[t].pc = "d_del"
  /\ messages' = delete_row(r.id)
  /\ Goto(t, "d_push", [l EXCEPT !.ok = TRUE])
  /\ UNCHANGED <<accounts, seq, active_clients, rpc_send_queue, conns, nreq, hist>>

\* The push of the deletion to the message's recipient, then the response.
\* The text handlers send the response frame itself on the recipient's socket.
DeletePush(t) ==
  LET r == thr[t].req
      m == CHOOSE x \in thr[t].loc.row : TRUE
      l == [thr[t].loc EXCEPT !.had = Registered(m.recipient)]
      resp == DelMsgFrame(r.fam, r.id, m.sender, m.unread)
  IN
  /\ Alive /\ thr[t].pc = "d_push"
  /\ IF IsText(t)
     THEN /\ Finish(t, [l EXCEPT !.pushed = {<<x, active_clients[x]>> : x \in TextDelivered({m.recipient})},
                                 !.failed = TextFailed({m.recipient})],
                    resp, SendAllTo({m.recipient}, resp))
          /\ UNCHANGED rpc_send_queue
     ELSE /\ rpc_send_queue' = EnqueueTo({m.recipient}, PushDelFrame("rpc", r.id, m.sender, m.unread))
          /\ Finish(t, [l EXCEPT !.pushed = {<<x, "queue">> : x \in {m.recipient} \cap DOMAIN rpc_send_queue}],
                    resp, conns)
  /\ hist' = [hist EXCEPT !.deleted = @ \cup {r.id}]
  /\ UNCHANGED <<accounts, messages, seq, active_clients, nreq>>

\* ---------------------------------------------------------------- DEL_ACC
\* deactivate_account.
Deactivate(t) ==
  LET r == thr[t].req  l == thr[t].loc IN
  /\ Alive /\ thr[t].pc = "a_deact"
  /\ IF HasAccount(r.u)
     THEN /\ accounts' = deactivate_account(r.u)
          /\ Goto(t, "rm", [l EXCEPT !.ok = TRUE])
          /\ UNCHANGED conns
     ELSE /\ Finish(t, [l EXCEPT !.errno = USER_DNE], ErrorFrame(r.fam, USER_DNE), conns)
          /\ UNCHANGED accounts
  /\ UNCHANGED <<messages, seq, active_clients, rpc_send_queue, nreq, hist>>

\* utils.remove_active_client: the whole of the text handlers' cleanup, the
\* first half of _cleanup_client_stream.
RemoveActive(t) ==
  LET r == thr[t].req  l == thr[t].loc IN
  /\ Alive /\ thr[t].pc = "rm"
  /\ active_clients' = remove_active_client(r.u)
  /\ IF IsText(t)
     THEN Finish(t, l, DelAccFrame(r.fam), conns)
     ELSE Goto(t, "rmq", l) /\ UNCHANGED conns
  /\ UNCHANGED <<accounts, messages, seq, rpc_send_queue, nreq, hist>>

\* utils.remove_rpc_send_queue_user: the second half of
\* _cleanup_client_stream; DeleteAccount then returns, UpdateStream ends.
RemoveQueue(t) ==
  LET r == thr[t].req  l == thr[t].loc IN
  /\ Alive /\ thr[t].pc = "rmq"
  /\ rpc_send_queue' = remove_rpc_send_queue_user(r.u)
  /\ Finish(t, l, IF r.op = "DEL_ACC" THEN DelAccFrame(r.fam) ELSE NoResp, conns)
  /\ hist' = IF r.op = "STREAM" THEN [hist EXCEPT !.ended = @ \cup {r.u}] ELSE hist
  /\ UNCHANGED <<accounts, messages, seq, active_clients, nreq>>

\* ---------------------------------------------------------- REC_MSG, READ
\* mark_message_as_read; the text handlers return None, AckPushMessage
\* returns errno SUCCESS.
AckReceipt(t) ==
  LET r == thr[t].req  l == thr[t].loc IN
  /\ Alive /\ thr[t].pc = "ack"
  /\ messages' = mark_message_as_read(r.id)
  /\ Finish(t, l, IF IsText(t) THEN NoResp ELSE OkFrame("rpc"), conns)
  /\ UNCHANGED <<accounts, seq, active_clients, rpc_send_queue, nreq, hist>>

\* get_recent_messages: the page is selected, its rows received by the
\* requester are set to read, and the list is returned to the handler.
Read(t) ==
  LET r == thr[t].req  l == thr[t].loc
      after == get_recent_messages_update(r.u, r.v, r.id, r.lim)
  IN
  /\ Alive /\ thr[t].pc = "read"
  /\ messages' = after
  /\ Goto(t, "r_unpack",
          [l EXCEPT !.list = get_recent_messages(r.u, r.v, r.id, r.lim),
                    !.cleared = Cardinality({m \in messages : m.unread = 1})
                                - Cardinality({m \in after : m.unread = 1})])
  /\ UNCHANGED <<accounts, seq, active_clients, rpc_send_queue, conns, nreq, hist>>

\* The handler's `unreads, history = database.get_recent_messages(...)`.  The
\* value is a list of dictionaries: unpacking it into two names raises
\* ValueError unless it has exactly two items, and with two items history is
\* one message's dictionary, on which history[0] (text handlers) raises
\* KeyError and message["sender"] over its keys (GetChatHistory) TypeError.
ReadUnpack(t) ==
  /\ Alive /\ thr[t].pc = "r_unpack"
  /\ Raise(t)
  /\ UNCHANGED <<accounts, messages, seq, active_clients, rpc_send_queue, conns, nreq, hist>>

\* ----------------------------------------------------------- UpdateStream
\* One turn of the drain loop `while context.is_active()`:
\* _get_update_for_user pops the head of the subscriber's queue and the loop
\* yields it; on an empty queue it returns None and the loop goes straight
\* into its next turn (spins counts these turns since the last update); a
\* subscriber without a queue raises KeyError, which ends the stream through
\* the cleanup.
StreamPoll(t) ==
  LET r == thr[t].req  l == thr[t].loc IN
  /\ Alive /\ thr[t].pc = "st_poll"
  /\ IF r.u \notin DOMAIN rpc_send_queue
     THEN Goto(t, "rm", l) /\ UNCHANGED rpc_send_queue
     ELSE IF rpc_send_queue[r.u] = <<>>
     THEN /\ l.spins < MaxSpin
          /\ Goto(t, "st_poll", [l EXCEPT !.spins = @ + 1])
          /\ UNCHANGED rpc_send_queue
     ELSE /\ rpc_send_queue' = [rpc_send_queue EXCEPT ![r.u] = Tail(@)]
          /\ thr' = [thr EXCEPT ![t].out = Append(@, Head(rpc_send_queue[r.u])),
                                ![t].loc.spins = 0]
          /\ UNCHANGED last
  /\ UNCHANGED <<accounts, messages, seq, active_clients, conns, nreq, hist>>

\* context.is_active() turns false (the client cancelled or went away): the
\* finally branch runs the cleanup.
StreamEnd(t) ==
  /\ Alive /\ thr[t].pc = "st_poll"
  /\ Goto(t, "rm", thr[t].loc)
  /\ UNCHANGED <<accounts, messages, seq, active_clients, rpc_send_queue, conns, nreq, hist>>

\* ------------------------------------------------------------------- Next
CreateSteps(t) == CreateSelect(t) \/ CreateInsert(t) \/ CreatePush(t)
LoginSteps(t) == LoginVerify(t) \/ LoginCheck(t)
RegisterSteps(t) == Conversations(t) \/ Register(t) \/ RegisterQueue(t)
SendSteps(t) == SendVerify(t) \/ SendStore(t) \/ SendPush(t)
DeleteSteps(t) == DeleteSelect(t) \/ DeleteRow(t) \/ DeletePush(t)
DeleteAccountSteps(t) == Deactivate(t) \/ RemoveActive(t) \/ RemoveQueue(t)
ReadSteps(t) == Read(t) \/ ReadUnpack(t)
StreamSteps(t) == StreamPoll(t) \/ StreamEnd(t)

\* Every request on every surface.
Next ==
  \/ \E t \in Threads : \E r \in Requests(t) : Begin(t, r)
  \/ \E c \in Conns : Accept(c) \/ Close(c) \/ Flush(c) \/ PartialFlush(c)
  \/ \E t \in Threads :
       \/ CreateSteps(t) \/ LoginSteps(t) \/ RegisterSteps(t)
       \/ SendSteps(t) \/ DeleteSteps(t) \/ DeleteAccountSteps(t)
       \/ AckReceipt(t) \/ ReadSteps(t) \/ StreamSteps(t) \/ Reject(t)

Spec == Init /\ [][Next]_vars

\* ------------------------------------------------- registration and login
\* CREATE and LOGIN of one account on the three surfaces, over text
\* connections that come and go.
LoginUsers == {"alice"}
LoginConns == Conns
LoginPasswords == {"pw"}
NextLogin ==
  \/ \E t \in Threads : \E r \in Requests(t) :
       /\ r.op \in {"CREATE", "LOGIN"}
       /\ r.u \in LoginUsers /\ r.v \in LoginPasswords
       /\ Begin(t, r)
  \/ \E c \in LoginConns : Accept(c) \/ Close(c)
  \/ \E t \in Threads : CreateSteps(t) \/ LoginSteps(t) \/ RegisterSteps(t)

SpecLogin == Init /\ [][NextLogin]_vars

\* ------------------------------------------------------------ the Store
\* The Store's operations on the custom text surface and the RPC surface.
\* The accounts were registered beforehand and their clients went away, as
\* the database file outlives connections; a client is connected on c1.
\* Every user sends, reads, acknowledges and deletes; the messages go to one
\* recipient, and a Read asks for the newest message of a conversation.
InitStore ==
  /\ accounts = [u \in Users |-> [password_hash |-> "pw", deactivated |-> 0]]
  /\ messages = {}
  /\ seq = 0
  /\ active_clients = <<>>
  /\ rpc_send_queue = <<>>
  /\ conns = [c \in Conns |-> IF c = "c1" THEN [NewConn EXCEPT !.state = "open"] ELSE NewConn]
  /\ thr = [t \in Threads |-> IdleThread]
  /\ last = NoLast
  /\ nreq = 0
  /\ hist = [issued |-> <<>>, deleted |-> {}, ended |-> {}]

StoreOps == {"SEND", "READ", "REC_MSG", "DEL_MSG"}
StoreThreads == {LoopThread, "r1"}
StoreRecipient == "alice"
NextStore ==
  \/ \E t \in StoreThreads : \E r \in Requests(t) :
       /\ r.op \in StoreOps /\ r.fam \in {"custom", "rpc"}
       /\ r.op = "READ" => (r.id = -1 /\ r.lim = 1)
       /\ r.op = "SEND" => r.v = StoreRecipient
       /\ Begin(t, r)
  \/ \E t \in StoreThreads :
       \/ SendSteps(t) \/ DeleteSteps(t)
       \/ AckReceipt(t) \/ ReadSteps(t)

SpecStore == InitStore /\ [][NextStore]_vars

\* ---------------------------------------------------------------- pushes
\* One user registers and logs in on any surface, sends to and deletes from
\* their own conversation, and deletes the account.
PushOps == {"CREATE", "LOGIN", "SEND", "DEL_MSG", "DEL_ACC"}
PushThreads == {LoopThread, "r1"}
NextPush ==
  \/ \E t \in PushThreads : \E r \in Requests(t) :
       /\ r.op \in PushOps
       /\ r.u \in {"alice", ""} /\ r.v \in {"alice", "pw", ""}
       /\ Begin(t, r)
  \/ \E c \in {"c1"} : Accept(c) \/ Close(c) \/ Flush(c)
  \/ \E t \in PushThreads :
       \/ CreateSteps(t) \/ LoginSteps(t) \/ RegisterSteps(t) \/ SendSteps(t)
       \/ DeleteSteps(t) \/ DeleteAccountSteps(t)

SpecPush == Init /\ [][NextPush]_vars

\* ------------------------------------------------------------ credentials
\* One account is registered, logged in to with the right and a wrong
\* password and deleted, on the custom text surface and the RPC surface; a
\* second username is only ever logged in with.
AuthOps == {"CREATE", "LOGIN", "DEL_ACC"}
AuthThreads == {LoopThread, "r1"}
AuthOwner == "alice"
NextAuth ==
  \/ \E t \in AuthThreads : \E r \in Requests(t) :
       /\ r.op \in AuthOps /\ r.fam \in {"custom", "rpc"}
       /\ r.u \in Users
       /\ r.op # "LOGIN" => r.u = AuthOwner
       /\ Begin(t, r)
  \/ \E c \in {"c1"} : Accept(c) \/ Close(c)
  \/ \E t \in AuthThreads :
       CreateSteps(t) \/ LoginSteps(t) \/ RegisterSteps(t) \/ DeleteAccountSteps(t)

SpecAuth == Init /\ [][NextAuth]_vars

\* ----------------------------------------------------------- deactivation
\* Over the Store of registered accounts: messages are sent to one user, the
\* user's account is deleted, and the user logs in.
DeactOps == {"SEND", "DEL_ACC", "LOGIN"}
NextDeact ==
  \/ \E t \in StoreThreads : \E r \in Requests(t) :
       /\ r.op \in DeactOps /\ r.fam \in {"custom", "rpc"}
       /\ r.op = "SEND" => r.v = StoreRecipient
       /\ r.op \in {"DEL_ACC", "LOGIN"} => r.u = StoreRecipient
       /\ Begin(t, r)
  \/ \E t \in StoreThreads :
       SendSteps(t) \/ DeleteAccountSteps(t) \/ LoginSteps(t) \/ RegisterSteps(t)

SpecDeact == InitStore /\ [][NextDeact]_vars

\* ----------------------------------------------------------- chat history
\* Over the Store of registered accounts: the users send to each other and
\* one of them reads pages of her conversations, on the custom text surface
\* and the RPC surface.
ReadOps == {"SEND", "READ"}
Reader == "alice"
Peer == "bob"
ReadOldest == {-1, MaxMsgs}
NextRead ==
  \/ \E t \in StoreThreads : \E r \in Requests(t) :
       /\ r.op \in ReadOps /\ r.fam \in {"custom", "rpc"}
       /\ r.op = "READ" => (r.u = Reader /\ r.v = Peer /\ r.id \in ReadOldest)
       /\ r.op = "SEND" => (r.u = Reader \/ r.v = Reader)
       /\ Begin(t, r)
  \/ \E t \in StoreThreads : SendSteps(t) \/ ReadSteps(t)

SpecRead == InitStore /\ [][NextRead]_vars

\* --------------------------------------------------- conversation summary
\* get_conversations over the tables the Store can hold: three accounts, of
\* which the last has been deactivated, and up to MaxRows messages that they
\* sent to the first user, read or unread, with times that do not go back
\* as the ids grow.  The user logs in on the RPC surface and gets the
\* summary.
SummaryUser == "alice"
SummaryPeers == {"bob", "carol"}
InitSummary ==
  \E n \in 0..MaxRows :
  \E f \in [1..n -> ({SummaryUser} \cup SummaryPeers) \X {0, 1} \X (1..MaxRows)] :
    /\ \A i, j \in 1..n : i < j => f[i][3] <= f[j][3]
    /\ accounts = [u \in {SummaryUser} \cup SummaryPeers |->
                     [password_hash |-> "pw",
                      deactivated |-> IF u = "carol" THEN 1 ELSE 0]]
    /\ messages = {[id |-> i, sender |-> f[i][1], recipient |-> SummaryUser,
                    message |-> "hi", timestamp |-> f[i][3], unread |-> f[i][2]] :
                     i \in 1..n}
    /\ seq = n
    /\ active_clients = <<>>
    /\ rpc_send_queue = <<>>
    /\ conns = [c \in Conns |-> IF c = "c1" THEN [NewConn EXCEPT !.state = "open"] ELSE NewConn]
    /\ thr = [t \in Threads |-> IdleThread]
    /\ last = NoLast
    /\ nreq = 0
    /\ hist = [issued |-> [i \in 1..n |-> i], deleted |-> {}, ended |-> {}]

SummaryThreads == {"r1"}
NextSummary ==
  \/ \E t \in SummaryThreads : \E r \in Requests(t) :
       /\ r.op = "LOGIN"
       /\ r.u = SummaryUser /\ r.v = "pw"
       /\ Begin(t, r)
  \/ \E t \in SummaryThreads : LoginSteps(t) \/ RegisterSteps(t)

SpecSummary == InitSummary /\ [][NextSummary]_vars

\* ----------------------------------------------------------- update stream
\* The RPC surface alone: one user registers, logs in, opens update streams
\* and sends to themself, on two pool threads.
StreamOps == {"CREATE", "LOGIN", "SEND", "STREAM"}
Subscriber == "alice"
NextStream ==
  \/ \E t \in RpcThreads : \E r \in Requests(t) :
       /\ r.op \in StreamOps
       /\ r.u = Subscriber /\ r.v \in {Subscriber, "pw", ""}
       /\ Begin(t, r)
  \/ \E t \in RpcThreads :
       \/ CreateSteps(t) \/ LoginSteps(t) \/ RegisterSteps(t) \/ SendSteps(t)
       \/ StreamSteps(t) \/ RemoveActive(t) \/ RemoveQueue(t)

SpecStream == Init /\ [][NextStream]_vars

\* The same with the scheduling of the thread pool: a pool thread that is
\* inside a handler goes on running it.  When a client issues a request,
\* and when it ends a stream, is up to the client.
SpecStreamFair ==
  /\ SpecStream
  /\ \A t \in RpcThreads :
       WF_vars(\/ CreateSteps(t) \/ LoginSteps(t) \/ RegisterSteps(t) \/ SendSteps(t)
               \/ StreamPoll(t) \/ RemoveActive(t) \/ RemoveQueue(t))

\* ------------------------------------------------------ text connections
\* One text connection that is accepted, written to (in full or in part) and
\* closed by its peer, and the frames of one user on it.
WireOps == {"CREATE", "SEND"}
NextWire ==
  \/ \E r \in Requests(LoopThread) :
       /\ r.op \in WireOps
       /\ r.u = "alice" /\ r.v \in {"alice", "pw"}
       /\ Begin(LoopThread, r)
  \/ \E c \in {"c1"} : Accept(c) \/ Close(c) \/ Flush(c) \/ PartialFlush(c)
  \/ CreateSteps(LoopThread) \/ Conversations(LoopThread) \/ Register(LoopThread)
  \/ SendSteps(LoopThread)

SpecWire == Init /\ [][NextWire]_vars

\* ---------------------------------------------------------------- refusals
\* One account: its registration, logins with the right and a wrong
\* password, deletions, and frames no handler is dispatched for, on a text
\* connection and on the RPC surface.  The text Login is a JSON frame, the
\* other text requests are custom frames, a bad version comes in any form.
ErrorOps == {"CREATE", "LOGIN", "DEL_MSG", "DEL_ACC", "BADVER", "UNKNOWN"}
ErrorThreads == {LoopThread, "r1"}
NextErrors ==
  \/ \E t \in ErrorThreads : \E r \in Requests(t) :
       /\ r.op \in ErrorOps
       /\ r.u \in {"alice", ""} /\ r.id \in {0, 1}
       /\ r.op = "CREATE" => r.v = "pw"
       /\ (IsText(t) /\ r.op # "BADVER") => (r.fam = "json" <=> r.op = "LOGIN")
       /\ Begin(t, r)
  \/ Accept("c1")
  \/ \E t \in ErrorThreads :
       \/ CreateSteps(t) \/ LoginSteps(t) \/ RegisterSteps(t)
       \/ DeleteSelect(t) \/ DeleteAccountSteps(t)
  \/ Reject(LoopThread)

SpecErrors == Init /\ [][NextErrors]_vars

\* ------------------------------------------------------------ failed pushes
\* alice registers over RPC, which leaves None as her sink in active_clients;
\* bob registers on a text connection, sends to her and deletes the message.
SinkOps == {"CREATE", "SEND", "DEL_MSG"}
NextSink ==
  \/ \E r \in Requests("r1") :
       /\ r.op = "CREATE" /\ r.u = "alice" /\ r.v = "pw"
       /\ Begin("r1", r)
  \/ \E r \in Requests(LoopThread) :
       /\ r.op \in SinkOps
       /\ r.op = "CREATE" => (r.u = "bob" /\ r.v = "pw")
       /\ r.op = "SEND" => (r.u = "bob" /\ r.v = "alice")
       /\ r.op = "DEL_MSG" => r.id = 1
       /\ Begin(LoopThread, r)
  \/ Accept("c1")
  \/ CreateSteps("r1") \/ RegisterSteps("r1")
  \/ CreateSteps(LoopThread) \/ Conversations(LoopThread) \/ Register(LoopThread)
  \/ SendSteps(LoopThread) \/ DeleteSteps(LoopThread)

SpecSink == Init /\ [][NextSink]_vars

\* ---------------------------------------------------------------- binding
\* Registrations and logins on one text connection, in both families, of a
\* plain username and of a username that contains the text ERROR.
BindUsers == {"alice"} \cup NamesWithERROR
NextBind ==
  \/ \E r \in Requests(LoopThread) :
       /\ r.op \in {"CREATE", "LOGIN"}
       /\ r.u \in BindUsers /\ r.v = "pw"
       /\ Begin(LoopThread, r)
  \/ Accept("c1") \/ Close("c1")
  \/ CreateSteps(LoopThread) \/ LoginSteps(LoopThread)
  \/ Conversations(LoopThread) \/ Register(LoopThread)

SpecBind == Init /\ [][NextBind]_vars

\* ------------------------------------------------------------------ locks
\* utils.add_active_client: remove_passive_client takes and releases the
\* passive lock, then the `with active_clients_lock` block is entered.  The
\* last acquired lock is released at the end of the step's body.
add_active_client_nested ==
  <<[op |-> "acquire", lock |-> "active_clients_lock"],
    [op |-> "acquire", lock |-> "passive_clients_lock"],
    [op |-> "release", lock |-> "passive_clients_lock"]>>

add_active_client_locks ==
  <<[op |-> "acquire", lock |-> "passive_clients_lock"],
    [op |-> "release", lock |-> "passive_clients_lock"],
    [op |-> "acquire", lock |-> "active_clients_lock"]>>

\* The lock operations thread t performs, in order, before the body of its
\* next step runs.  The text handlers push under active_clients_lock, the RPC
\* handlers under rpc_send_queue_lock; the custom handle_login reads
\* active_clients without a lock; an RPC Register or Login calls
\* get_passive_client before add_active_client.
LockScript(t) ==
  LET a == <<[op |-> "acquire", lock |-> "active_clients_lock"]>>
      q == <<[op |-> "acquire", lock |-> "rpc_send_queue_lock"]>>
      pc == thr[t].pc
  IN  IF pc \in {"c_push", "s_push", "d_push"} THEN (IF IsText(t) THEN a ELSE q)
      ELSE IF pc = "l_chk"
           THEN (IF ~IsText(t) THEN q ELSE IF thr[t].req.fam = "json" THEN a ELSE <<>>)
      ELSE IF pc = "reg"
           THEN (IF IsText(t) THEN add_active_client_locks
                 ELSE <<[op |-> "acquire", lock |-> "passive_clients_lock"],
                        [op |-> "release", lock |-> "passive_clients_lock"]>>
                      \o add_active_client_locks)
      ELSE IF pc = "rm" THEN a
      ELSE IF pc \in {"queue", "rmq"} THEN q
      ELSE <<>>

\* threading.Lock: acquire waits until no thread holds the lock (it is not
\* reentrant), release frees it.
LockOp(t) ==
  /\ thr[t].lk < Len(LockScript(t))
  /\ LET o == LockScript(t)[thr[t].lk + 1] IN
       /\ o.op = "acquire" => \A x \in Threads : o.lock \notin thr[x].held
       /\ thr' = [thr EXCEPT ![t].lk = @ + 1,
                             ![t].held = IF o.op = "acquire" THEN @ \cup {o.lock}
                                         ELSE @ \ {o.lock}]
  /\ UNCHANGED <<accounts, messages, seq, active_clients, rpc_send_queue, conns, last, nreq, hist>>

\* The body of thread t's next step may run: its locks are taken.
Locked(t) == thr[t].lk = Len(LockScript(t))

\* Registration, login and account deletion of one user on the text loop and
\* on one RPC thread, with every lock operation a step of its own.
\* service_connection's remove_active_client on a closed connection needs
\* active_clients_lock too.
NextLocks ==
  \/ \E t \in {LoopThread, "r1"} : \E r \in Requests(t) :
       /\ r.op \in {"CREATE", "LOGIN", "DEL_ACC"}
       /\ r.u = "alice" /\ r.v \in {"pw", ""}
       /\ Begin(t, r)
  \/ Accept("c1")
  \/ (\A x \in Threads : "active_clients_lock" \notin thr[x].held) /\ Close("c1")
  \/ \E t \in {LoopThread, "r1"} : LockOp(t)
  \/ \E t \in {LoopThread, "r1"} :
       /\ Locked(t)
       /\ CreateSteps(t) \/ LoginSteps(t) \/ RegisterSteps(t) \/ DeleteAccountSteps(t)

SpecLocks == Init /\ [][NextLocks]_vars

\* ================================================================ claims

\* C1: of the concurrent Logins for one username that began while the
\* username had no ActiveClientEntry, at most one gets past the "not already
\* active" check: two requests never both observe the username as absent.
C1_AtMostOneLoginAdmitted ==
  LET \* Thread t serves a Login for u with the right password that began
      \* while u had no entry in either registry map, and is past the check.
      LoginAdmitted(t, u) ==
        /\ thr[t].req.op = "LOGIN" /\ thr[t].req.u = u
        /\ thr[t].loc.ok /\ thr[t].loc.absent0
        /\ thr[t].pc \in {"conv", "reg", "queue"}
  IN \A u \in Users : \A t1, t2 \in Threads :
       (LoginAdmitted(t1, u) /\ LoginAdmitted(t2, u)) => t1 = t2

\* C2: a Login for a username that holds an ActiveClientEntry (in either
\* registry map) both when the request arrives and when the handler makes its
\* check is answered ERROR(USER_LOGGED_ON), on every surface.
C2_LoggedOnRejected ==
  (last.req.op = "LOGIN" /\ ~last.loc.absent0 /\ last.loc.had)
    => (last.resp.opcode = "ERROR" /\ last.resp.errno = USER_LOGGED_ON)

\* C3: a MessageDeleted frame reaches a connection at most once per
\* DeleteMessage: the socket the text handler pushed the frame to is not the
\* connection that also gets the frame as the request's response.
C3_DeletePushedOnce ==
  (IsText(last.t) /\ last.req.op = "DEL_MSG" /\ last.resp.opcode = "DEL_MSG")
    => \A p \in last.loc.pushed : p[2] # last.req.conn

C5_NoWriteForDeactivated ==
  [][\A m \in messages' \ messages : accounts[m.recipient].deactivated = 0]_vars

\* C6: the ids store_message returned are strictly increasing in the order
\* of the writes, the first is 1, and the ACK of a Send carries the id of
\* its write.
C6_IdsStrictlyIncreasing ==
  /\ \A i, j \in 1..Len(hist.issued) : i < j => hist.issued[i] < hist.issued[j]
  /\ hist.issued # <<>> => hist.issued[1] = 1
  /\ (last.req.op = "SEND" /\ last.loc.ok) =>
       /\ last.resp = AckFrame(last.req.fam, last.loc.mid)
       /\ \E i \in 1..Len(hist.issued) : hist.issued[i] = last.loc.mid

\* C6's case: a Send wrote its message after the deletion of message 1 had
\* succeeded, and got id 2.
C6_Witness ==
  /\ last.req.op = "SEND" /\ last.loc.gone0
  /\ hist.issued = <<1, 2>> /\ 1 \in hist.deleted
  /\ last.resp = AckFrame(last.req.fam, 2)

\* C7: a Send whose recipient was found not deactivated returns the ACK with
\* the id of the one message it wrote, and if the recipient holds an
\* ActiveClientEntry when the push is dispatched, exactly one sink gets the
\* NewMessage.
C7_SendPersistsAndPushes ==
  (last.req.op = "SEND" /\ last.loc.ok) =>
    /\ last.resp = AckFrame(last.req.fam, last.loc.mid)
    /\ last.loc.mid >= 1
    /\ last.loc.had => Cardinality(last.loc.pushed) = 1

\* C8: a Send that wrote nothing and returned msg_id = -1 pushed no
\* NewMessage.
C8_NoPushWithoutWrite ==
  (last.req.op = "SEND" /\ last.resp.opcode = "ACK" /\ last.resp.id = -1)
    => last.loc.pushed = {}

\* C9: a successful DeleteMessage whose message's recipient holds an
\* ActiveClientEntry when the push is dispatched hands the MessageDeleted
\* event to that recipient's sink.
C9_DeletePushed ==
  (last.req.op = "DEL_MSG" /\ last.resp.opcode = "DEL_MSG" /\ last.loc.had)
    => last.loc.pushed # {}

\* C10: a DeleteMessage of an id that store_message never returned, or of an
\* id whose deletion had succeeded before the request arrived, is answered
\* ERROR(ID_DNE).
C10_DeletedAtMostOnce ==
  (/\ last.req.op = "DEL_MSG"
   /\ \/ last.loc.gone0
      \/ \A i \in 1..Len(hist.issued) : hist.issued[i] # last.req.id)
    => last.resp = ErrorFrame(last.req.fam, ID_DNE)

\* C10's case: the second DeleteMessage of an id, after the first succeeded.
C10_Witness ==
  /\ last.req.op = "DEL_MSG" /\ last.loc.gone0
  /\ last.req.id \in hist.deleted
  /\ last.resp = ErrorFrame(last.req.fam, ID_DNE)

\* C11: once a DeleteAccount(u) has succeeded, u holds no ActiveClientEntry on
\* any surface: neither a socket in active_clients nor a queue in
\* rpc_send_queue.
C11_NoEntryAfterDeleteAccount ==
  (last.req.op = "DEL_ACC" /\ last.resp.opcode = "DEL_ACC") => ~Registered(last.req.u)

\* C12: a deactivated account stays deactivated and keeps its row in every
\* later state; no step of a DeleteAccount removes or changes a message; and
\* every Login for a username whose account was deactivated when the request
\* arrived is answered with an error, whatever the password.
C12_DeactivationPermanent ==
  [][/\ \A u \in DOMAIN accounts :
          accounts[u].deactivated = 1 =>
            (u \in DOMAIN accounts' /\ accounts'[u] = accounts[u])
     /\ \A t \in Threads :
          (thr[t].req.op = "DEL_ACC" /\ thr'[t] # thr[t]) =>
            (messages' = messages /\ DOMAIN accounts' = DOMAIN accounts)
     /\ (last'.req.op = "LOGIN" /\ last'.loc.acct0 = "dead") =>
          last'.resp.opcode = "ERROR"]_vars

\* C12's case: a Login with the account's own password, arrived after the
\* account was deactivated, was answered USER_DNE; the account row is still
\* there and so is a message addressed to the user.
C12_Witness ==
  /\ last.req.op = "LOGIN" /\ last.loc.acct0 = "dead"
  /\ last.req.v = accounts[last.req.u].password_hash
  /\ last.resp.opcode = "ERROR" /\ last.resp.errno = USER_DNE
  /\ accounts[last.req.u].deactivated = 1
  /\ \E m \in messages : m.recipient = last.req.u

\* C13: a Login for a username that holds no ActiveClientEntry, neither when
\* the request arrives nor when the handler checks, is answered by the
\* account alone: with a live account it succeeds (USERS, page LGN_PG) if the
\* password is the one the account was registered with and gets
\* ERROR(WRONG_PASS) if it is any other; with no account under the username
\* it gets ERROR(USER_DNE).  A successful Register stored its password.
C13_LoginByCredentials ==
  LET u == last.req.u  p == last.req.v IN
  /\ (last.req.op = "CREATE" /\ last.resp.opcode = "USERS") =>
       (HasAccount(u) /\ accounts[u].password_hash = p)
  /\ (last.req.op = "LOGIN" /\ last.loc.absent0 /\ ~last.loc.had) =>
       /\ (last.loc.acct0 = "live" /\ accounts[u].deactivated = 0) =>
            IF p = accounts[u].password_hash
            THEN /\ last.resp.opcode = "USERS" /\ last.resp.page = LGN_PG
                 /\ last.resp.user = u
            ELSE last.resp.opcode = "ERROR" /\ last.resp.errno = WRONG_PASS
       /\ (last.loc.acct0 = "none" /\ ~HasAccount(u)) =>
            (last.resp.opcode = "ERROR" /\ last.resp.errno = USER_DNE)

\* C13's case: the account was registered in this run, nobody is logged in
\* as its user, and a Login with another password was answered WRONG_PASS.
C13_Witness ==
  /\ last.req.op = "LOGIN" /\ last.loc.absent0 /\ ~last.loc.had
  /\ last.loc.acct0 = "live" /\ accounts[last.req.u].deactivated = 0
  /\ last.req.v # accounts[last.req.u].password_hash
  /\ last.resp.opcode = "ERROR" /\ last.resp.errno = WRONG_PASS

\* C14: every Register for a username other than the one whose INSERT
\* created the account row is answered ERROR(USER_TAKEN).
C14_LosersGetUserTaken ==
  (last.req.op = "CREATE" /\ ~last.loc.ok) =>
    (last.resp.opcode = "ERROR" /\ last.resp.errno = USER_TAKEN)

\* C15: a Read is answered with the MSGS response that carries the page
\* get_recent_messages selected: the rows of the conversation below the
\* oldest id with the limit largest ids, oldest first.
C15_ReadReturnsPage ==
  last.req.op = "READ" =>
    (last.resp.opcode = "MSGS" /\ last.resp.list = last.loc.list)

\* C16: the step of a Read that runs get_recent_messages clears the unread
\* flag of exactly the rows it returns whose recipient is the reader; every
\* other row stays as it is, and no row is added or removed.
C16_ReadClearsReturnedOnly ==
  [][\A t \in Threads :
       (thr[t].pc = "read" /\ thr'[t].pc = "r_unpack") =>
         LET page == thr'[t].loc.list
             ids == {page[i].id : i \in {j \in DOMAIN page : page[j].recipient = thr[t].req.u}}
         IN messages' = {IF m.id \in ids THEN [m EXCEPT !.unread = 0] ELSE m : m \in messages}]_vars

\* C16's case: a Read returned two messages, one addressed to the reader,
\* which it switched to read, and one the reader sent, which is still unread.
C16_Witness ==
  \E t \in Threads :
    /\ thr[t].pc = "r_unpack" /\ thr[t].loc.cleared = 1
    /\ \E i, j \in DOMAIN thr[t].loc.list :
         LET a == thr[t].loc.list[i]  b == thr[t].loc.list[j] IN
         /\ a.recipient = thr[t].req.u /\ b.recipient # thr[t].req.u
         /\ \E m \in messages : m.id = a.id /\ m.unread = 0
         /\ \E m \in messages : m.id = b.id /\ m.unread = 1

\* C17: a Read is answered with the MSGS response whose unread count is the
\* number of messages the Read has just switched from unread to read.
C17_ReadReturnsCleared ==
  last.req.op = "READ" =>
    (last.resp.opcode = "MSGS" /\ last.resp.flag = last.loc.cleared)

C19_EnqueueOnlyWhileStreaming ==
  [][\A u \in DOMAIN rpc_send_queue \cap DOMAIN rpc_send_queue' :
       Len(rpc_send_queue'[u]) > Len(rpc_send_queue[u]) =>
         \E t \in RpcThreads :
           thr[t].req.op = "STREAM" /\ thr[t].req.u = u /\ thr[t].pc = "st_poll"]_vars

\* C20: while a user keeps a queue, an event that was enqueued for them
\* leaves the queue only as the head that an UpdateStream of that user emits:
\* every step either keeps the queued events in place, possibly with more
\* behind them, or pops the head onto a stream of that user.
C20_QueuedUntilEmitted ==
  [][\A u \in DOMAIN rpc_send_queue \cap DOMAIN rpc_send_queue' :
       LET q == rpc_send_queue[u]  q2 == rpc_send_queue'[u] IN
       q # <<>> =>
         \/ Len(q2) >= Len(q) /\ SubSeq(q2, 1, Len(q)) = q
         \/ /\ q2 = Tail(q)
            /\ \E t \in RpcThreads :
                 /\ thr[t].req.op = "STREAM" /\ thr[t].req.u = u
                 /\ thr'[t].out = Append(thr[t].out, Head(q))]_vars

\* C21: when an UpdateStream call ends, its cleanup removes the subscriber's
\* active_clients entry and then the subscriber's push queue together with
\* the events still in it; a Login of that user which arrives afterwards,
\* finds no entry, and carries the password of the live account is answered
\* USERS, not USER_LOGGED_ON, and over RPC starts with a fresh empty queue.
C21_StreamEndCleansUp ==
  [][/\ \A t \in RpcThreads : thr[t].req.op = "STREAM" =>
          /\ (thr[t].pc = "rm" /\ thr'[t].pc = "rmq") =>
               thr[t].req.u \notin DOMAIN active_clients'
          /\ (thr[t].pc = "rmq" /\ thr'[t].pc = "idle") =>
               /\ thr[t].req.u \notin DOMAIN rpc_send_queue'
               /\ thr[t].req.u \in hist'.ended
     /\ (/\ last' # last /\ last'.req.op = "LOGIN"
         /\ last'.req.u \in hist.ended
         /\ last'.loc.absent0 /\ ~last'.loc.had
         /\ last'.loc.acct0 = "live" /\ accounts[last'.req.u].deactivated = 0
         /\ last'.req.v = accounts[last'.req.u].password_hash) =>
          /\ last'.resp.opcode = "USERS" /\ last'.resp.page = LGN_PG
          /\ last'.req.fam = "rpc" => rpc_send_queue'[last'.req.u] = <<>>]_vars

\* C21's case: the user's stream has ended and been cleaned up, and the
\* Login that followed was admitted.
C21_Witness ==
  /\ last.req.op = "LOGIN" /\ last.req.u \in hist.ended
  /\ last.loc.absent0 /\ ~last.loc.had
  /\ last.resp.opcode = "USERS"
  /\ last.req.u \in DOMAIN rpc_send_queue

\* C22: an UpdateStream whose subscriber's queue is empty takes no turn of
\* its drain loop: no stream has polled an empty queue.
C22_NoPollOnEmptyQueue ==
  \A t \in RpcThreads : thr[t].loc.spins = 0

\* C23: when the peer of a text connection closes, the username bound to the
\* connection loses its active_clients entry and the connection is closed;
\* nothing is written to a closed connection any more, so the bytes still
\* queued in data.outb are never sent.
C23_PeerCloseCleansUp ==
  [][\A c \in Conns :
       /\ (conns[c].state = "open" /\ conns'[c].state = "closed") =>
            /\ conns[c].username # NoUser =>
                 conns[c].username \notin DOMAIN active_clients'
            /\ conns'[c].wire = conns[c].wire
       /\ conns[c].state = "closed" =>
            (conns'[c].state = "closed" /\ conns'[c].wire = conns[c].wire)]_vars

\* C23's case: a connection bound to a user was closed with a response
\* still queued, and the user has no active_clients entry.
C23_Witness ==
  \E c \in Conns :
    /\ conns[c].state = "closed" /\ conns[c].username # NoUser
    /\ conns[c].outb # <<>>
    /\ conns[c].username \notin DOMAIN active_clients

\* C24: the bytes written to a text connection are a concatenation of whole
\* frames: the head of a partly written frame is followed by that frame's
\* tail, with nothing in between.
C24_WholeFramesOnWire ==
  \A c \in Conns : \A i \in 1..Len(conns[c].wire) :
    conns[c].wire[i].part = "head" =>
      \/ i = Len(conns[c].wire)
      \/ conns[c].wire[i + 1] = [conns[c].wire[i] EXCEPT !.part = "tail"]

\* C25: no frame ends the readiness loop: the thread that runs the selector
\* loop is never left by an exception.
C25_LoopSurvivesEveryFrame ==
  thr[LoopThread].pc # "crashed"

\* C26: a Send whose recipient has no account completes with the normal
\* response ACK carrying msg_id -1 (errno SUCCESS), and raises no error.
C26_SendToNoAccountAcked ==
  /\ (last.req.op = "SEND" /\ ~HasAccount(last.req.v)) =>
       (last.resp = AckFrame(last.req.fam, -1) /\ last.loc.pushed = {})
  /\ \A t \in Threads : (thr[t].req.op = "SEND" /\ ~HasAccount(thr[t].req.v)) =>
       thr[t].pc # "crashed"

\* C27: a frame whose leading version token is not recognised is answered
\* with ERROR UNSUPPORTED_VERSION queued on its connection; the connection
\* stays open with the username it is bound to, the Store and the registry
\* are as before, and the loop is free for the next frame.
C27_BadVersionRefused ==
  [][thr[LoopThread].req.op = "BADVER" /\ thr'[LoopThread] # thr[LoopThread] =>
       LET c == thr[LoopThread].req.conn IN
       /\ last'.req = thr[LoopThread].req
       /\ last'.resp.opcode = "ERROR" /\ last'.resp.errno = UNSUPPORTED_VERSION
       /\ conns' = [conns EXCEPT ![c].outb = Append(@, last'.resp)]
       /\ conns'[c].state = "open"
       /\ thr'[LoopThread].pc = "idle"
       /\ UNCHANGED <<accounts, messages, seq, active_clients, rpc_send_queue>>]_vars

\* C27's case: a connection bound to a user got a frame with a bad version
\* refused, and a later frame on it was answered after the refusal.
C27_Witness ==
  \E c \in Conns :
    LET b == conns[c].wire \o conns[c].outb IN
    /\ conns[c].state = "open" /\ conns[c].username # NoUser
    /\ conns[c].username \in DOMAIN active_clients
    /\ \E i, j \in 1..Len(b) :
         /\ i < j
         /\ b[i].opcode = "ERROR" /\ b[i].errno = UNSUPPORTED_VERSION
         /\ b[j].opcode = "ERROR" /\ b[j].errno = USER_TAKEN
    /\ Len(b) = 3 /\ b[1].opcode = "USERS"

\* C28: a request answered with ERROR USER_TAKEN, USER_DNE, WRONG_PASS,
\* ID_DNE, USER_LOGGED_ON or UNKNOWN_COMMAND changes neither the Store nor the
\* registry and pushes nothing, in the step that answers it and in the
\* verification step before it; its connection stays open and bound as it
\* was, and its thread is free for the next request.
C28_RefusalChangesNothing ==
  [][\A t \in Threads :
       (/\ thr'[t] # thr[t]
        /\ \/ thr[t].pc = "l_ver"
           \/ /\ last' # last /\ last'.t = t
              /\ last'.resp.opcode = "ERROR"
              /\ last'.resp.errno \in {USER_TAKEN, USER_DNE, WRONG_PASS, ID_DNE,
                                       USER_LOGGED_ON, UNKNOWN_COMMAND}) =>
         /\ UNCHANGED <<accounts, messages, seq, active_clients, rpc_send_queue>>
         /\ \A c \in Conns : /\ conns'[c].wire = conns[c].wire
                             /\ conns'[c].state = conns[c].state
                             /\ conns'[c].username = conns[c].username
         /\ last' # last => last'.loc.pushed = {}
         /\ thr[t].pc # "l_ver" => thr'[t].pc = "idle"]_vars

\* C28's case: after a registration, requests were refused with
\* UNKNOWN_COMMAND and with ID_DNE, and the account and its registry entry are
\* as the registration left them.
C28_Witness ==
  /\ last.resp.opcode = "ERROR" /\ last.resp.errno = ID_DNE
  /\ \E c \in Conns : \E i \in 1..Len(conns[c].outb) :
       conns[c].outb[i].opcode = "ERROR" /\ conns[c].outb[i].errno = UNKNOWN_COMMAND
  /\ HasAccount("alice") /\ "alice" \in DOMAIN active_clients

\* C29: when the push of a text Send, Create or DeleteMessage cannot be sent
\* (sendall on the sink raises), the request still gets its normal success
\* response, its Store mutation is in place, and the loop goes on.
C29_PushFailureNotReported ==
  [][/\ thr'[LoopThread].loc.failed # {} => thr'[LoopThread].pc # "crashed"
     /\ (last' # last /\ last'.loc.failed # {}) =>
          /\ last'.req.op = "SEND" =>
               /\ last'.resp = AckFrame(last'.req.fam, last'.loc.mid)
               /\ last'.loc.mid >= 1 => \E m \in messages' : m.id = last'.loc.mid
          /\ last'.req.op = "CREATE" =>
               /\ last'.resp.opcode = "USERS" /\ last'.resp.page = REG_PG
               /\ last'.req.u \in DOMAIN accounts'
          /\ last'.req.op = "DEL_MSG" =>
               /\ last'.resp.opcode = "DEL_MSG" /\ last'.resp.id = last'.req.id
               /\ \A m \in messages' : m.id # last'.req.id]_vars

\* C29's case: the push of a stored message failed on the recipient's sink,
\* and the sender got the ACK with the message's id.
C29_Witness ==
  /\ last.req.op = "SEND" /\ last.loc.failed = {last.req.v}
  /\ last.resp.opcode = "ACK" /\ last.resp.id >= 1
  /\ RowsWithId(last.resp.id) # {}

\* C30: the response of a text handler is encoded in the wire family of the
\* request it answers, for success and for every error outcome, so that the
\* custom and the JSON handler answer the same request in the same way.
C30_ResponseInRequestFamily ==
  (last.t = LoopThread /\ last.req.fam \in TextFams /\ last.resp.opcode # "NONE") =>
    last.resp.fam = last.req.fam

\* C31: when a Login or Create on a text connection is answered with USERS,
\* the connection is the username's active_clients entry as soon as the
\* response is queued, whatever names the payload carries; when it is
\* answered with ERROR, the registry is as before.
C31_UsersMeansRegistered ==
  [][(/\ last' # last /\ last'.t = LoopThread
      /\ last'.req.op \in {"CREATE", "LOGIN"}) =>
       /\ last'.resp.opcode = "USERS" =>
            /\ last'.req.u \in DOMAIN active_clients'
            /\ active_clients'[last'.req.u] = last'.req.conn
            /\ conns'[last'.req.conn].username = last'.req.u
       /\ last'.resp.opcode = "ERROR" =>
            (active_clients' = active_clients
             /\ conns'[last'.req.conn].username = conns[last'.req.conn].username)]_vars

\* C32: the NewMessage of a stored Send reaches a recipient who is active
\* through another surface than the sender's: an RPC Send writes the push to
\* the open text connection of the recipient, a text Send appends it to the
\* recipient's RPC push queue.
C32_EventsCrossSurfaces ==
  [][(last' # last /\ last'.req.op = "SEND" /\ last'.loc.ok) =>
       LET v == last'.req.v IN
       /\ (/\ last'.t \in RpcThreads
           /\ v \in DOMAIN active_clients
           /\ Deliverable(active_clients[v])) =>
            Len(conns'[active_clients[v]].wire) > Len(conns[active_clients[v]].wire)
       /\ (last'.t = LoopThread /\ v \in DOMAIN rpc_send_queue) =>
            Len(rpc_send_queue'[v]) > Len(rpc_send_queue[v])]_vars

\* C33: the broadcast of a successful Create(u) hands exactly one NewUser(u)
\* to every user other than u that holds an ActiveClientEntry at that
\* moment (one frame more on the user's open text connection or in the
\* user's push queue) and none to u; a Create that fails pushes nothing.
C33_NewUserToEveryActiveUser ==
  [][/\ \A t \in Threads : (thr[t].pc = "c_push" /\ thr'[t].pc = "conv") =>
          \A x \in (DOMAIN active_clients \cup DOMAIN rpc_send_queue) \ {thr[t].req.u} :
            \/ /\ x \in DOMAIN rpc_send_queue
               /\ Len(rpc_send_queue'[x]) = Len(rpc_send_queue[x]) + 1
            \/ /\ x \in DOMAIN active_clients /\ active_clients[x] \in Conns
               /\ Len(conns'[active_clients[x]].wire) = Len(conns[active_clients[x]].wire) + 1
     /\ (last' # last /\ last'.req.op = "CREATE" /\ last'.resp.opcode = "ERROR") =>
          last'.loc.pushed = {}]_vars

\* C34: an AckReceipt of id leaves the messages table as it was except that
\* the row with that id, if there is one, has unread = 0 (so a second
\* AckReceipt changes nothing, and an id without a row changes nothing);
\* accounts, registry and connections are unchanged, no response is queued on
\* a text connection, and the handler returns normally.
C34_AckReceiptClearsOneFlag ==
  [][\A t \in Threads : (thr[t].pc = "ack" /\ thr'[t] # thr[t]) =>
       LET id == thr[t].req.id IN
       /\ messages' = {IF m.id = id THEN [m EXCEPT !.unread = 0] ELSE m : m \in messages}
       /\ (\A m \in messages : m.id = id => m.unread = 0) => messages' = messages
       /\ UNCHANGED <<accounts, seq, active_clients, rpc_send_queue, conns>>
       /\ thr'[t].pc = "idle" /\ last'.req = thr[t].req
       /\ last'.resp = IF IsText(t) THEN NoResp ELSE OkFrame("rpc")]_vars

\* C34's case: of two stored messages the acknowledged one is read and the
\* other still unread, and the text connection has nothing queued.
C34_Witness ==
  /\ last.req.op = "REC_MSG" /\ last.t = LoopThread
  /\ \E m1, m2 \in messages :
       /\ m1.id = last.req.id /\ m1.unread = 0
       /\ m2.id # m1.id /\ m2.recipient = m1.recipient /\ m2.unread = 1
  /\ conns[last.req.conn].outb = <<>> /\ conns[last.req.conn].wire = <<>>

\* C35: every active_clients entry whose sink is a text connection refers to
\* a connection that is open.
C35_SinksAreOpen ==
  \A u \in DOMAIN active_clients :
    active_clients[u] \in Conns => conns[active_clients[u]].state = "open"

\* C36: a user who is logged in on an open text connection keeps the
\* active_clients entry that points to that connection in every step other
\* than the close of that connection and the DeleteAccount of that user.
C36_TextEntryKept ==
  [][\A u \in DOMAIN active_clients :
       (/\ active_clients[u] \in Conns
        /\ conns[active_clients[u]].state = "open"
        /\ conns[active_clients[u]].username = u
        /\ conns'[active_clients[u]].state = "open"
        /\ ~\E t \in Threads : /\ thr[t].req.op = "DEL_ACC" /\ thr[t].req.u = u
                               /\ thr'[t] # thr[t]) =>
         (u \in DOMAIN active_clients' /\ active_clients'[u] = active_clients[u])]_vars

\* C37: of the DeleteMessage requests for one id only one succeeds: when one
\* has returned success, no other request for that id is past its DELETE and
\* about to push and return success as well.
C37_OneDeleteSucceeds ==
  \A t \in Threads :
    ~(/\ last.req.op = "DEL_MSG" /\ last.resp.opcode = "DEL_MSG"
      /\ last.t # t
      /\ thr[t].req.op = "DEL_MSG" /\ thr[t].req.id = last.req.id
      /\ thr[t].pc = "d_push")

\* C38: if no UpdateStream is ever opened, a username that is logged in on
\* the RPC surface (it has a push queue, so Login answers USER_LOGGED_ON)
\* eventually becomes free again.
C38_UsernameFreedEventually ==
  ([](\A t \in RpcThreads : thr[t].req.op # "STREAM")) =>
    ((Subscriber \in DOMAIN rpc_send_queue) ~> (Subscriber \notin DOMAIN rpc_send_queue))

\* C40: every Read returns a page: as many messages as get_recent_messages
\* fetched, all with ids below the oldest id passed (any id for -1), in
\* ascending order of id, so that the pages of successive Reads, each
\* passing the smallest id of the page before, are disjoint and contiguous
\* and end with an empty page.
C40_PagesPartitionConversation ==
  last.req.op = "READ" =>
    LET page == last.resp.list IN
    /\ last.resp.opcode = "MSGS"
    /\ Len(page) = Len(last.loc.list)
    /\ \A i \in DOMAIN page : last.req.id = -1 \/ page[i].id < last.req.id
    /\ \A i, j \in DOMAIN page : i < j => page[i].id < page[j].id

\* C39: no thread ever holds more than one of the three locks at a time, a
\* thread that is idle again (its handler returned, early error returns
\* included) or whose handler raised holds none, and a thread that waits for
\* a lock holds none, so no thread waits for a lock whose holder is waiting
\* too: the text loop and the RPC threads cannot deadlock.
C39_LocksNeverNest ==
  \A t \in Threads :
    /\ Cardinality(thr[t].held) <= 1
    /\ thr[t].pc \in {"idle", "crashed"} => thr[t].held = {}
    /\ (~Locked(t) /\ LockScript(t)[thr[t].lk + 1].op = "acquire") =>
         /\ thr[t].held = {}
         /\ \A x \in Threads :
              LockScript(t)[thr[t].lk + 1].lock \in thr[x].held =>
                Locked(x) \/ LockScript(x)[thr[x].lk + 1].op = "release"
    /\ \A x \in Threads \ {t} : thr[t].held \cap thr[x].held = {}

\* The text loop holds active_clients_lock inside the JSON handle_login's
\* check while the RPC thread, inside add_active_client, waits for it.
C39_Witness ==
  /\ thr[LoopThread].pc = "l_chk" /\ thr[LoopThread].held = {"active_clients_lock"}
  /\ thr["r1"].pc = "reg" /\ thr["r1"].lk = 4 /\ thr["r1"].held = {}

====
